---- MODULE Spec2Model ----
(***************************************************************************)
(* Model of gamestonk_terminal/common/prediction_techniques/pred_helper.py *)
(*                                                                         *)
(* The process-wide state is os.environ (the two TensorFlow variables),    *)
(* the two ORIGINAL_* module constants captured at import and the          *)
(* PREPROCESSER configuration constant.  `series` is the loaded price      *)
(* series, `other_args` the last command line given to parse_args,         *)
(* `ns_parser` what parse_args last returned, `args` the arguments of      *)
(* prepare_scale_train_valid_test and `ret` how its last call ended,       *)
(* together with the function's locals at the point it stopped.  `fc` is   *)
(* a call of forecast, `kpi` a call of print_prediction_kpis and `view` a  *)
(* call of one of the sorted views: each holds the arguments and, once the *)
(* call is made, how it ended.  `sia` is the state of a                    *)
(* SectorIndustryAnalysisController and what its last command did.         *)
(*                                                                         *)
(* Representation                                                          *)
(*   None / optional value   <<>> is None, <<v>> is the value v            *)
(*   date                    a day number; the index of a series of length *)
(*                           N is <<1, ..., N>> (strictly increasing)      *)
(*   number                  [num, den, rad] stands for num/(den*sqrt(rad))*)
(*                           a raw price p is [num |-> p, den |-> 1,       *)
(*                           rad |-> 1]; arithmetic is exact               *)
(*   string of flags         the set of its space separated tokens         *)
(*                                                                         *)
(* Spec is the module as its callers drive it: parse_args, restore_env and *)
(* prepare called with the values of the parsed namespace.  SpecPrepare    *)
(* is prepare_scale_train_valid_test as a function of its arguments: its   *)
(* initial states draw the series and the arguments, its action calls it.  *)
(***************************************************************************)
EXTENDS Integers, Sequences, FiniteSets, TLC

VARIABLES environ, ORIGINAL_TF_XLA_FLAGS, ORIGINAL_TF_FORCE_GPU_ALLOW_GROWTH, PREPROCESSER, series, other_args, ns_parser, args, ret, fc, kpi, view, sia

\* the variables of the calls that do not touch the environment or the pipeline
auxVars == <<fc, kpi, view, sia>>

vars == <<environ, ORIGINAL_TF_XLA_FLAGS, ORIGINAL_TF_FORCE_GPU_ALLOW_GROWTH, PREPROCESSER, series, other_args, ns_parser, args, ret, fc, kpi, view, sia>>

(* ----------------------------- bounds ---------------------------------- *)
\* longest price series
MaxLen == 5
\* prices are 1..MaxPrice
MaxPrice == 2
\* largest n_input_days passed to prepare
MaxInput == 2
\* largest n_predict_days passed to prepare
MaxPredict == 2

(* ------------------------- program constants --------------------------- *)
\* parse_args: default of -d/--days
DefaultDays == 5
\* parse_args: default of -i/--input
DefaultInputs == 40
\* parse_args: default of -v/--valid, in tenths (0.1)
DefaultValidTenths == 1

None == <<>>
Some(v) == <<v>>
IsNone(o) == o = <<>>
Get(o) == o[1]

Min(a, b) == IF a <= b THEN a ELSE b
Max(a, b) == IF a >= b THEN a ELSE b
Abs(a) == IF a < 0 THEN 0 - a ELSE a

RECURSIVE Gcd(_, _)
Gcd(a, b) == IF b = 0 THEN a ELSE Gcd(b, a % b)

RECURSIVE SeqSum(_)
SeqSum(s) == IF s = <<>> THEN 0 ELSE Head(s) + SeqSum(Tail(s))

SeqMin(s) == CHOOSE m \in {s[i] : i \in DOMAIN s} : \A i \in DOMAIN s : m <= s[i]
SeqMax(s) == CHOOSE m \in {s[i] : i \in DOMAIN s} : \A i \in DOMAIN s : m >= s[i]

(* --------------------------- exact numbers ----------------------------- *)
\* the number num/(den*sqrt(rad)), den > 0, in lowest terms
Num(n, d, r) == LET g == Gcd(Abs(n), d) IN [num |-> n \div g, den |-> d \div g, rad |-> IF n = 0 THEN 1 ELSE r]
Raw(p) == Num(p, 1, 1)

(* ------------------------- python sequences ---------------------------- *)
\* a slice bound as python reads it: a negative one counts from the end, and
\* either is clipped to the sequence
PyBound(s, i) == IF i < 0 THEN Max(Len(s) + i, 0) ELSE Min(i, Len(s))
\* s[a:b]: positions a+1..b after the bounds are read; empty when they cross
PySlice(s, a, b) == SubSeq(s, PyBound(s, a) + 1, PyBound(s, b))
\* s[-n:] (pandas iloc and python agree): the last n for n > 0; -0 is 0, so all
\* of s for n = 0
PyTail(s, n) == SubSeq(s, PyBound(s, 0 - n) + 1, Len(s))
\* s[:-n]: all but the last n for n > 0; nothing for n = 0
PyDropTail(s, n) == SubSeq(s, 1, PyBound(s, 0 - n))
\* range(n) as the sequence <<0, ..., n-1>>; empty when n <= 0
PyRange(n) == [i \in 1..Max(n, 0) |-> i - 1]

(* ------------------------------ scalers -------------------------------- *)
\* a price series: parallel index (dates) and values (prices)
Series(index, values) == [index |-> index, values |-> values]

\* data[data.index <= s_end_date]
TruncateAt(data, s_end_date) == LET keep == SelectSeq([i \in DOMAIN data.index |-> i], LAMBDA i : data.index[i] <= s_end_date) IN Series([k \in DOMAIN keep |-> data.index[keep[k]]], [k \in DOMAIN keep |-> data.values[keep[k]]])

\* cfg.Preprocess left unset: PREPROCESSER is None
Unset == "<None>"

\* the chain without its last branch: "none" falls through to a MinMaxScaler
SelectScalerNoNone(preprocesser) == IF preprocesser = Unset THEN None ELSE Some([kind |-> IF preprocesser = "none" THEN "minmax" ELSE preprocesser, n_fit |-> 0, fit_X |-> <<>>])

\* StandardScaler() / MinMaxScaler() / Normalizer() / None, by the configuration
SelectScaler(preprocesser) == IF preprocesser \in {"standardization", "minmax", "normalization"} THEN Some([kind |-> preprocesser, n_fit |-> 0, fit_X |-> <<>>]) ELSE None

\* estimator.fit(X): the instance remembers what it was fit on
Fit(scaler, X) == [kind |-> scaler.kind, n_fit |-> scaler.n_fit + 1, fit_X |-> X]

\* n^2 * variance of the fit data: n * sum(x^2) - sum(x)^2
FitSpread(scaler) == LET X == scaler.fit_X IN Len(X) * SeqSum([i \in DOMAIN X |-> X[i] * X[i]]) - SeqSum(X) * SeqSum(X)
FitRange(scaler) == SeqMax(scaler.fit_X) - SeqMin(scaler.fit_X)

\* StandardScaler.transform: (x - mean_) / scale_, scale_ = 1 where the deviation is 0
StandardTransform(scaler, x) == LET n == Len(scaler.fit_X) IN IF FitSpread(scaler) > 0 THEN Num(n * x - SeqSum(scaler.fit_X), 1, FitSpread(scaler)) ELSE Num(n * x - SeqSum(scaler.fit_X), n, 1)

\* MinMaxScaler.transform: (x - data_min_) / data_range_, data_range_ = 1 where it is 0
MinMaxTransform(scaler, x) == IF FitRange(scaler) > 0 THEN Num(x - SeqMin(scaler.fit_X), FitRange(scaler), 1) ELSE Num(x - SeqMin(scaler.fit_X), 1, 1)

\* Normalizer.transform on a column vector: each one-element row divided by its l2 norm
NormalizerTransform(scaler, x) == IF x = 0 THEN Num(0, 1, 1) ELSE Num(x \div Abs(x), 1, 1)

\* scaler.transform(X.reshape(-1, 1)) for one raw price x
Transform(scaler, x) == CASE scaler.kind = "standardization" -> StandardTransform(scaler, x) [] scaler.kind = "minmax" -> MinMaxTransform(scaler, x) [] OTHER -> NormalizerTransform(scaler, x)

\* a number this representation cannot hold
OffDomain == [num |-> 0, den |-> 0, rad |-> 0]

\* StandardScaler.inverse_transform: z * scale_ + mean_
StandardInverse(scaler, z) == LET n == Len(scaler.fit_X)
                                  S == SeqSum(scaler.fit_X)
                              IN  IF z.num = 0 THEN Num(S, n, 1)
                                  ELSE IF FitSpread(scaler) > 0 /\ z.rad = FitSpread(scaler) THEN Num(z.num + S * z.den, z.den * n, 1)
                                  ELSE IF FitSpread(scaler) = 0 /\ z.rad = 1 THEN Num(z.num * n + S * z.den, z.den * n, 1)
                                  ELSE OffDomain

\* MinMaxScaler.inverse_transform: (z - min_) / scale_
MinMaxInverse(scaler, z) == LET r == IF FitRange(scaler) > 0 THEN FitRange(scaler) ELSE 1
                            IN  IF z.rad = 1 THEN Num(z.num * r + SeqMin(scaler.fit_X) * z.den, z.den, 1) ELSE OffDomain

\* sklearn's Normalizer defines fit and transform only
HasInverseTransform(scaler) == scaler.kind \in {"standardization", "minmax"}

\* scaler.inverse_transform(z), for the scalers that have the method
InverseTransform(scaler, z) == IF scaler.kind = "standardization" THEN StandardInverse(scaler, z) ELSE MinMaxInverse(scaler, z)

(* ------------------------- train_test_split ---------------------------- *)
\* permutations of 0..n-1, what the shuffling split can draw
Permutations0(n) == {p \in [1..n -> 0..(n - 1)] : \A i, j \in 1..n : p[i] = p[j] => i = j}

\* ceil(tenths/10 * n), exact; the float product agrees for the sizes used here
CeilTenths(tenths, n) == (tenths * n + 9) \div 10

\* sklearn.model_selection.train_test_split(..., test_size=tenths/10, shuffle=shuffle):
\* the positions (0-based) that go to the training and to the validation arrays
train_test_split(n_samples, test_size, shuffle, perm) ==
    IF test_size <= 0 \/ test_size >= 10
    THEN [raised |-> TRUE, train |-> <<>>, test |-> <<>>]
    ELSE LET n_test  == CeilTenths(test_size, n_samples)
             n_train == n_samples - n_test
         IN  IF n_train = 0
             THEN [raised |-> TRUE, train |-> <<>>, test |-> <<>>]
             ELSE IF shuffle
             THEN [raised |-> FALSE, train |-> SubSeq(perm, n_test + 1, n_test + n_train), test |-> SubSeq(perm, 1, n_test)]
             ELSE [raised |-> FALSE, train |-> [i \in 1..n_train |-> i - 1], test |-> [i \in 1..n_test |-> n_train + i - 1]]

\* arrays[idx] for a list of 0-based positions
Take(arr, idx) == [k \in DOMAIN idx |-> arr[idx[k] + 1]]

(* -------------------- prepare_scale_train_valid_test ------------------- *)
\* the eleven data fields of the returned tuple, all None
ElevenNone == [X_train |-> None, X_valid |-> None, y_train |-> None, y_valid |-> None, X_dates_train |-> None, X_dates_valid |-> None, y_dates_train |-> None, y_dates_valid |-> None, test_data |-> None, dates_test |-> None, scaler |-> None]

\* the function's locals where it has not reached the windowing loop
NoWindows == [input_prices |-> <<>>, input_dates |-> <<>>, next_n_day_prices |-> <<>>, next_n_day_dates |-> <<>>]

\* what scaler.fit_transform is handed: data.values, the whole (truncated) series
FitInput(data, train_data) == data.values

\* the array the windows are cut from: `prices = train_data`, after train_data was
\* rebound to the transform of FitInput (scaler) or to data.values (no scaler)
WindowedPrices(scaler, data, train_data) == IF IsNone(scaler) THEN [i \in DOMAIN data.values |-> Raw(data.values[i])] ELSE [i \in DOMAIN FitInput(data, train_data) |-> Transform(Get(scaler), FitInput(data, train_data)[i])]

\* test_data after scaling: scaler.transform(test_data.values) or the raw values
ScaledTestData(scaler, test_data) == IF IsNone(scaler) THEN [i \in DOMAIN test_data.values |-> Raw(test_data.values[i])] ELSE [i \in DOMAIN test_data.values |-> Transform(Get(scaler), test_data.values[i])]

\* the loop bound: range(len(prices) - n_input_days - n_predict_days)
WindowStarts(prices, n_input_days, n_predict_days) == PyRange(Len(prices) - n_input_days - n_predict_days)

\* prices[idx : idx + n_input_days] (also used for dates)
InputSlice(arr, idx, n_input_days) == PySlice(arr, idx, idx + n_input_days)

\* the target slice cut one position late: a gap after the input slice
TargetSliceLate(arr, idx, n_input_days, n_predict_days) == PySlice(arr, idx + n_input_days + 1, idx + n_input_days + 1 + n_predict_days)

\* prices[idx + n_input_days : idx + n_input_days + n_predict_days] (also used for dates)
TargetSlice(arr, idx, n_input_days, n_predict_days) == PySlice(arr, idx + n_input_days, idx + n_input_days + n_predict_days)

\* the four lists the loop builds
BuildWindows(prices, dates, n_input_days, n_predict_days) ==
    LET starts == WindowStarts(prices, n_input_days, n_predict_days)
    IN  [input_prices      |-> [k \in DOMAIN starts |-> InputSlice(prices, starts[k], n_input_days)],
         input_dates       |-> [k \in DOMAIN starts |-> InputSlice(dates, starts[k], n_input_days)],
         next_n_day_prices |-> [k \in DOMAIN starts |-> TargetSlice(prices, starts[k], n_input_days, n_predict_days)],
         next_n_day_dates  |-> [k \in DOMAIN starts |-> TargetSlice(dates, starts[k], n_input_days, n_predict_days)]]

\* the early return is taken only when a cutoff date is given
InsufficientGuard(data, n_input_days, n_predict_days, s_end_date) == ~IsNone(s_end_date) /\ n_input_days + n_predict_days > Len(data.values)

\* the eight arrays of the split, by the positions train_test_split chose
SplitArrays(w, split) == [X_train |-> Some(Take(w.input_prices, split.train)), X_valid |-> Some(Take(w.input_prices, split.test)), y_train |-> Some(Take(w.next_n_day_prices, split.train)), y_valid |-> Some(Take(w.next_n_day_prices, split.test)), X_dates_train |-> Some(Take(w.input_dates, split.train)), X_dates_valid |-> Some(Take(w.input_dates, split.test)), y_dates_train |-> Some(Take(w.next_n_day_dates, split.train)), y_dates_valid |-> Some(Take(w.next_n_day_dates, split.test))]

\* prepare_scale_train_valid_test(data, n_input_days, n_predict_days, test_size,
\* s_end_date, no_shuffle); perm is the permutation the shuffling split draws.
\* The result records how the call ended (outcome, exc), the returned tuple
\* (out, insufficient) and the locals at that point (reached, data, prices, windows,
\* split).
prepare_scale_train_valid_test(preprocesser, data0, n_input_days, n_predict_days, test_size, s_end_date, no_shuffle, perm) ==
    LET scaler0 == SelectScaler(preprocesser)
        data    == IF IsNone(s_end_date) THEN data0 ELSE TruncateAt(data0, Get(s_end_date))
    IN  IF InsufficientGuard(data, n_input_days, n_predict_days, s_end_date)
        THEN [outcome |-> "return", exc |-> "", insufficient |-> TRUE, reached |-> "guard", out |-> ElevenNone, data |-> data, prices |-> <<>>, windows |-> NoWindows, split |-> [train |-> <<>>, test |-> <<>>]]
        ELSE
        LET test_data0 == Series(PyTail(data.index, n_input_days), PyTail(data.values, n_input_days))
            train_data == Series(PyDropTail(data.index, n_input_days), PyDropTail(data.values, n_input_days))
        IN  IF ~IsNone(scaler0) /\ Len(FitInput(data, train_data)) = 0
            THEN [outcome |-> "raise", exc |-> "ValueError", insufficient |-> FALSE, reached |-> "scaling", out |-> ElevenNone, data |-> data, prices |-> <<>>, windows |-> NoWindows, split |-> [train |-> <<>>, test |-> <<>>]]
            ELSE
            LET scaler == IF IsNone(scaler0) THEN None ELSE Some(Fit(Get(scaler0), FitInput(data, train_data)))
                prices == WindowedPrices(scaler, data, train_data)
                w      == BuildWindows(prices, data.index, n_input_days, n_predict_days)
                split  == train_test_split(Len(w.input_prices), test_size, no_shuffle, perm)
            IN  IF split.raised
                THEN [outcome |-> "raise", exc |-> "ValueError", insufficient |-> FALSE, reached |-> "split", out |-> ElevenNone, data |-> data, prices |-> prices, windows |-> w, split |-> [train |-> <<>>, test |-> <<>>]]
                ELSE [outcome |-> "return", exc |-> "", insufficient |-> FALSE, reached |-> "split",
                      out |-> SplitArrays(w, split) @@ [test_data |-> Some(ScaledTestData(scaler, test_data0)), dates_test |-> Some(test_data0.index), scaler |-> scaler],
                      data |-> data, prices |-> prices, windows |-> w, split |-> [train |-> split.train, test |-> split.test]]

\* how many window pairs the call above will build, for drawing the permutation
NumWindows(data0, n_input_days, n_predict_days, s_end_date) == LET data == IF IsNone(s_end_date) THEN data0 ELSE TruncateAt(data0, Get(s_end_date)) IN Max(Len(data.values) - n_input_days - n_predict_days, 0)

(* ------------------------------ parse_args ----------------------------- *)
\* helper_funcs.check_positive: the argparse type of -d, -i: rejects values <= 0
check_positive(value) == value > 0

\* check_valid_frac as an argparse type: argparse hands it the argument STRING, and
\* `num < 0` on a string raises TypeError, which argparse reports as an invalid
\* value: every -v given on the command line is rejected
check_valid_frac_accepts_string(value) == FALSE

\* check_valid_frac on a number (tenths): accepted when 0 <= num <= 1
check_valid_frac(num) == ~((num < 0) \/ (num > 10))

GrowthChoices == {"true", "false", "default"}

\* the parser exits (SystemExit) on an argument its type or choices reject
ParserExits(a) ==
    \/ ~IsNone(a.d) /\ ~check_positive(Get(a.d))
    \/ ~IsNone(a.i) /\ ~check_positive(Get(a.i))
    \/ ~IsNone(a.growth) /\ Get(a.growth) \notin GrowthChoices
    \/ ~IsNone(a.v) /\ ~check_valid_frac_accepts_string(Get(a.v))

\* helper_funcs.parse_known_args_and_warn: None when help is requested
HelpRequested(a) == a.h

\* the flag read as store_true: passing --no_shuffle would turn shuffling on
NoShuffleDestStoreTrue(flag_given) == flag_given

\* dest="no_shuffle", action="store_false", default=True
NoShuffleDest(flag_given) == IF flag_given THEN FALSE ELSE TRUE

\* the namespace argparse builds from the arguments and the declared defaults
Namespace(a) == [n_days |-> IF IsNone(a.d) THEN DefaultDays ELSE Get(a.d),
                 n_inputs |-> IF IsNone(a.i) THEN DefaultInputs ELSE Get(a.i),
                 s_end_date |-> a.e,
                 b_xla_cpu |-> a.xla_cpu,
                 b_xla_gpu |-> a.xla_gpu,
                 s_force_gpu_allow_growth |-> IF IsNone(a.growth) THEN "true" ELSE Get(a.growth),
                 valid_split |-> IF IsNone(a.v) THEN DefaultValidTenths ELSE Get(a.v),
                 no_shuffle |-> NoShuffleDest(a.no_shuffle)]

\* what parse_args returns: None (help, or the parser exited) or the namespace
ParseResult(a) == IF HelpRequested(a) \/ ParserExits(a) THEN None ELSE Some(Namespace(a))

\* the flags parse_args writes to TF_XLA_FLAGS
XlaFlags(original, ns) ==
    (IF IsNone(original) \/ original = Some({}) THEN {} ELSE Get(original))
    \cup (IF ns.b_xla_cpu \/ ns.b_xla_gpu THEN {"--tf_xla_enable_xla_devices"} ELSE {})
    \cup (IF ns.b_xla_cpu THEN {"--tf_xla_cpu_global_jit"} ELSE {})
    \cup (IF ns.b_xla_gpu THEN {"--tf_xla_auto_jit=2"} ELSE {})

\* os.environ after parse_args returned the namespace ns
EnvironAfterParse(env, original_xla, ns) ==
    [TF_XLA_FLAGS |-> Some(XlaFlags(original_xla, ns)),
     TF_FORCE_GPU_ALLOW_GROWTH |-> IF ns.s_force_gpu_allow_growth = "true" THEN Some("true")
                                   ELSE IF ns.s_force_gpu_allow_growth = "false" THEN Some("false")
                                   ELSE env.TF_FORCE_GPU_ALLOW_GROWTH]

\* a parse_args that writes TF_XLA_FLAGS before it looks at what the parser gave
EnvironAfterCallXlaFirst(env, original_xla, result) ==
    IF IsNone(result) THEN [env EXCEPT !.TF_XLA_FLAGS = Some(IF IsNone(original_xla) THEN {} ELSE Get(original_xla))]
    ELSE EnvironAfterParse(env, original_xla, Get(result))

\* os.environ after parse_args: it returns before the first assignment when the
\* parser gave no namespace, and a SystemExit is caught before any assignment
EnvironAfterCall(env, original_xla, result) ==
    IF IsNone(result) THEN env ELSE EnvironAfterParse(env, original_xla, Get(result))

\* a restore that deletes the key whatever its original value was
RestoreDeletes(value) == None

\* restore(key, value): delete the key when the original was None, else set it
Restore(value) == value

(* ------------------------------ inputs --------------------------------- *)
Prices == 1..MaxPrice
AllSeries == UNION {{Series([i \in 1..n |-> i], v) : v \in [1..n -> Prices]} : n \in 0..MaxLen}
\* one series of each length, prices cycling through 1..MaxPrice
CycleSeries == {Series([i \in 1..n |-> i], [i \in 1..n |-> ((i - 1) % MaxPrice) + 1]) : n \in 0..MaxLen}
\* validation fractions in tenths: 0.0, 0.1, 0.5, 1.0
TestSizes == {0, 1, 5, 10}
Preprocessers == {"standardization", "minmax", "normalization", "none", Unset}

NoArgs == [d |-> None, i |-> None, e |-> None, xla_cpu |-> FALSE, xla_gpu |-> FALSE, growth |-> None, v |-> None, no_shuffle |-> FALSE, h |-> FALSE]
\* command lines: the pipeline options, some environment options, the rejected ones
ArgLists ==
    {[NoArgs EXCEPT !.d = Some(d), !.i = Some(i), !.no_shuffle = f] : d \in 1..MaxPredict, i \in 1..MaxInput, f \in BOOLEAN}
    \cup {[NoArgs EXCEPT !.e = Some(MaxLen - 1)], [NoArgs EXCEPT !.xla_cpu = TRUE, !.growth = Some("default")], [NoArgs EXCEPT !.xla_gpu = TRUE, !.growth = Some("false")]}
    \cup {[NoArgs EXCEPT !.h = TRUE], [NoArgs EXCEPT !.d = Some(0)], [NoArgs EXCEPT !.v = Some(5)], [NoArgs EXCEPT !.growth = Some("maybe")]}

NoCall == [outcome |-> "none"]
UserXlaFlags == {None, Some({"--tf_xla_cpu_global_jit"})}
UserGrowth == {None, Some("false")}

(* ------------------------------ actions -------------------------------- *)
\* the module just imported, a series loaded, nothing called yet
Init ==
    /\ ORIGINAL_TF_XLA_FLAGS \in UserXlaFlags
    /\ ORIGINAL_TF_FORCE_GPU_ALLOW_GROWTH \in UserGrowth
    /\ environ = [TF_XLA_FLAGS |-> ORIGINAL_TF_XLA_FLAGS, TF_FORCE_GPU_ALLOW_GROWTH |-> ORIGINAL_TF_FORCE_GPU_ALLOW_GROWTH]
    /\ PREPROCESSER \in Preprocessers
    /\ series \in CycleSeries
    /\ other_args = None
    /\ ns_parser = None
    /\ args = None
    /\ ret = NoCall
    /\ fc = NoCall /\ kpi = NoCall /\ view = NoCall /\ sia = NoCall

\* parse_args(prog, description, other_args)
ParseArgs ==
    \E a \in ArgLists :
        /\ other_args' = Some(a)
        /\ ns_parser' = ParseResult(a)
        /\ environ' = EnvironAfterCall(environ, ORIGINAL_TF_XLA_FLAGS, ParseResult(a))
        /\ UNCHANGED <<ORIGINAL_TF_XLA_FLAGS, ORIGINAL_TF_FORCE_GPU_ALLOW_GROWTH, PREPROCESSER, series, args, ret>>
        /\ UNCHANGED auxVars

\* restore_env()
RestoreEnv ==
    /\ environ' = [TF_XLA_FLAGS |-> Restore(ORIGINAL_TF_XLA_FLAGS), TF_FORCE_GPU_ALLOW_GROWTH |-> Restore(ORIGINAL_TF_FORCE_GPU_ALLOW_GROWTH)]
    /\ UNCHANGED <<ORIGINAL_TF_XLA_FLAGS, ORIGINAL_TF_FORCE_GPU_ALLOW_GROWTH, PREPROCESSER, series, other_args, ns_parser, args, ret>>
    /\ UNCHANGED auxVars

\* the arguments a caller takes from the namespace parse_args returned
ArgsFromNamespace(ns) == [n_input_days |-> ns.n_inputs, n_predict_days |-> ns.n_days, test_size |-> ns.valid_split, s_end_date |-> ns.s_end_date, no_shuffle |-> ns.no_shuffle]

\* the permutations the split may draw for the arguments a
Draws(d, a) == IF a.no_shuffle THEN Permutations0(NumWindows(d, a.n_input_days, a.n_predict_days, a.s_end_date)) ELSE {<<>>}

\* a caller that got a namespace from parse_args hands its values to prepare
PrepareFromArgs ==
    /\ ~IsNone(ns_parser)
    /\ \E perm \in Draws(series, ArgsFromNamespace(Get(ns_parser))) :
        /\ args' = Some(ArgsFromNamespace(Get(ns_parser)))
        /\ ret' = prepare_scale_train_valid_test(PREPROCESSER, series, ns_parser[1].n_inputs, ns_parser[1].n_days, ns_parser[1].valid_split, ns_parser[1].s_end_date, ns_parser[1].no_shuffle, perm)
    /\ UNCHANGED <<environ, ORIGINAL_TF_XLA_FLAGS, ORIGINAL_TF_FORCE_GPU_ALLOW_GROWTH, PREPROCESSER, series, other_args, ns_parser>>
    /\ UNCHANGED auxVars

Next == ParseArgs \/ RestoreEnv \/ PrepareFromArgs

Spec == Init /\ [][Next]_vars

(* ---------------- prepare as a function of its arguments --------------- *)
PrepareArgs == [n_input_days : 1..MaxInput, n_predict_days : 1..MaxPredict, test_size : TestSizes, s_end_date : {None} \cup {Some(d) : d \in 0..MaxLen}, no_shuffle : BOOLEAN]

\* the arguments without a cutoff date and without shuffling
PlainArgs == {a \in PrepareArgs : IsNone(a.s_end_date) /\ ~a.no_shuffle}

\* the series and the arguments of one call: any series with the plain arguments, or
\* a cycling series with any arguments, the cutoff a date up to the last of the series
PrepareInputs == {<<s, a>> \in AllSeries \X PlainArgs : TRUE} \cup {<<s, a>> \in CycleSeries \X PrepareArgs : IsNone(a.s_end_date) \/ Get(a.s_end_date) <= Len(s.values)}

InitPrepare ==
    /\ ORIGINAL_TF_XLA_FLAGS = None
    /\ ORIGINAL_TF_FORCE_GPU_ALLOW_GROWTH = None
    /\ environ = [TF_XLA_FLAGS |-> ORIGINAL_TF_XLA_FLAGS, TF_FORCE_GPU_ALLOW_GROWTH |-> ORIGINAL_TF_FORCE_GPU_ALLOW_GROWTH]
    /\ PREPROCESSER \in Preprocessers
    /\ \E in \in PrepareInputs : series = in[1] /\ args = Some(in[2])
    /\ other_args = None
    /\ ns_parser = None
    /\ ret = NoCall
    /\ fc = NoCall /\ kpi = NoCall /\ view = NoCall /\ sia = NoCall

\* prepare_scale_train_valid_test(series, **args)
Prepare ==
    /\ ~IsNone(args)
    /\ \E perm \in Draws(series, Get(args)) :
        ret' = prepare_scale_train_valid_test(PREPROCESSER, series, args[1].n_input_days, args[1].n_predict_days, args[1].test_size, args[1].s_end_date, args[1].no_shuffle, perm)
    /\ UNCHANGED <<environ, ORIGINAL_TF_XLA_FLAGS, ORIGINAL_TF_FORCE_GPU_ALLOW_GROWTH, PREPROCESSER, series, other_args, ns_parser, args>>
    /\ UNCHANGED auxVars

NextPrepare == Prepare

SpecPrepare == InitPrepare /\ [][NextPrepare]_vars

(* ======================= properties of prepare ========================= *)
\* the last call of prepare got as far as building the windows
ReachedWindowing == ret.outcome # "none" /\ ret.reached = "split"
\* the last call of prepare returned a normal result (insufficient_data = False)
NormalReturn == ret.outcome = "return" /\ ~ret.insufficient
\* the arguments of the call
NInput == args[1].n_input_days
NPredict == args[1].n_predict_days
\* the training-eligible portion: the (truncated) series without its final n_input points
TrainEligible == PyDropTail(ret.data.values, NInput)
\* the dates of the held-out tail: the final n_input points
HeldOutDates == {ret.data.index[i] : i \in {j \in DOMAIN ret.data.index : j > Len(ret.data.index) - NInput}}
\* the dates that occur in a list of date slices
DatesIn(slices) == UNION {{slices[k][j] : j \in DOMAIN slices[k]} : k \in DOMAIN slices}
\* the first date of each slice of a list of (non-empty) date slices
StartDates(slices) == {slices[k][1] : k \in DOMAIN slices}
\* the position in the (truncated) series of the entry dated d
DatePos(d) == CHOOSE i \in DOMAIN ret.data.index : ret.data.index[i] = d

\* C1: the number of window pairs built before the split is L - n_input - n_predict
\* when the training-eligible length L exceeds n_input + n_predict, and 0 otherwise.
C1_WindowCount ==
    ReachedWindowing =>
        Len(ret.windows.input_prices) = (IF Len(TrainEligible) > NInput + NPredict THEN Len(TrainEligible) - NInput - NPredict ELSE 0)

\* C2: in every result, no training or validation window (input or target) holds
\* one of the final n_input points of the (truncated) series.
C2_TailHeldOut ==
    NormalReturn =>
        \A f \in {"X_dates_train", "X_dates_valid", "y_dates_train", "y_dates_valid"} :
            DatesIn(ret.out[f][1]) \cap HeldOutDates = {}

\* C3: with an active scaling mode the scaler is fit exactly once, on the
\* training-eligible portion only, and that instance transforms the windowed prices
\* and the held-out tail and is the one returned.
C3_FitOnTrainOnly ==
    (NormalReturn /\ ~IsNone(ret.out.scaler)) =>
        LET sc == ret.out.scaler[1]
        IN  /\ sc.n_fit = 1
            /\ sc.fit_X = TrainEligible
            /\ \A i \in DOMAIN ret.prices : ret.prices[i] = Transform(sc, ret.data.values[i])
            /\ LET tail == PyTail(ret.data.values, NInput)
               IN  ret.out.test_data[1] = [i \in DOMAIN tail |-> Transform(sc, tail[i])]

\* C4: given a cutoff date, the series is restricted to the entries dated at or
\* before it; a restricted length below n_input + n_predict gives
\* insufficient_data = True with the eleven data fields None and no exception, and
\* any other length gives a result with insufficient_data = False.
C4_CutoffGuard ==
    (ret.outcome # "none" /\ ~IsNone(args[1].s_end_date)) =>
        /\ \A i \in DOMAIN series.index : (series.index[i] <= args[1].s_end_date[1]) <=> (\E j \in DOMAIN ret.data.index : ret.data.index[j] = series.index[i] /\ ret.data.values[j] = series.values[i])
        /\ Len(ret.data.index) = Cardinality({i \in DOMAIN series.index : series.index[i] <= args[1].s_end_date[1]})
        /\ IF Len(ret.data.values) < NInput + NPredict
           THEN ret.outcome = "return" /\ ret.insufficient /\ \A f \in DOMAIN ret.out : IsNone(ret.out[f])
           ELSE ret.outcome = "return" /\ ~ret.insufficient

\* C5: a series shorter than n_input + n_predict, with or without a cutoff date,
\* gives insufficient_data = True, no exception, and no windowing or splitting.
C5_ShortSeries ==
    (ret.outcome # "none" /\ Len(series.values) < NInput + NPredict) =>
        ret.outcome = "return" /\ ret.insufficient /\ ret.reached = "guard"

\* C6: for every validation fraction in [0, 1], the endpoints included, the split of
\* the window pairs succeeds and len(train) + len(valid) is their number, no window
\* in both partitions and none dropped.
C6_SplitConserves ==
    (ReachedWindowing /\ Len(ret.windows.input_prices) >= 1 /\ check_valid_frac(args[1].test_size)) =>
        /\ NormalReturn
        /\ Len(ret.out.X_train[1]) + Len(ret.out.X_valid[1]) = Len(ret.windows.input_prices)
        /\ StartDates(ret.out.X_dates_train[1]) \cap StartDates(ret.out.X_dates_valid[1]) = {}
        /\ \A k \in DOMAIN ret.windows.input_dates : \E f \in {"X_dates_train", "X_dates_valid"} : \E i \in DOMAIN ret.out[f][1] : ret.out[f][1][i] = ret.windows.input_dates[k]

\* C7: every window pair has an input slice of exactly n_input consecutive points
\* and a target slice of exactly n_predict consecutive points that starts right
\* after the input's last point; the date slices cover the positions of the value
\* slices; the k-th window starts at the k-th point (stride 1).
C7_WindowShape ==
    ReachedWindowing =>
        LET w == ret.windows
        IN  /\ Len(w.input_dates) = Len(w.input_prices) /\ Len(w.next_n_day_prices) = Len(w.input_prices) /\ Len(w.next_n_day_dates) = Len(w.input_prices)
            /\ \A k \in DOMAIN w.input_prices :
                /\ DOMAIN w.input_prices[k] = 1..NInput /\ DOMAIN w.input_dates[k] = 1..NInput
                /\ DOMAIN w.next_n_day_prices[k] = 1..NPredict /\ DOMAIN w.next_n_day_dates[k] = 1..NPredict
                /\ \A j \in 1..NInput : w.input_dates[k][j] = ret.data.index[k + j - 1] /\ w.input_prices[k][j] = ret.prices[k + j - 1]
                /\ \A j \in 1..NPredict : w.next_n_day_dates[k][j] = ret.data.index[k + NInput + j - 1] /\ w.next_n_day_prices[k][j] = ret.prices[k + NInput + j - 1]

\* a normal result with several window pairs of more than one input point
C7_Witness == NormalReturn /\ Len(ret.windows.input_prices) >= 2 /\ NInput >= 2

\* C9: with scaling mode none (configured "none", or unset) every value of the
\* training and validation input and target arrays and of the held-out tail is the
\* raw series value at its position, and the returned scaler is None.
C9_NoScaling ==
    (NormalReturn /\ PREPROCESSER \in {"none", Unset}) =>
        /\ IsNone(ret.out.scaler)
        /\ \A p \in {<<"X_train", "X_dates_train">>, <<"X_valid", "X_dates_valid">>, <<"y_train", "y_dates_train">>, <<"y_valid", "y_dates_valid">>} :
            /\ DOMAIN ret.out[p[1]][1] = DOMAIN ret.out[p[2]][1]
            /\ \A i \in DOMAIN ret.out[p[1]][1] :
                /\ DOMAIN ret.out[p[1]][1][i] = DOMAIN ret.out[p[2]][1][i]
                /\ \A j \in DOMAIN ret.out[p[1]][1][i] : ret.out[p[1]][1][i][j] = [num |-> ret.data.values[DatePos(ret.out[p[2]][1][i][j])], den |-> 1, rad |-> 1]
        /\ DOMAIN ret.out.test_data[1] = DOMAIN ret.out.dates_test[1]
        /\ \A j \in DOMAIN ret.out.test_data[1] : ret.out.test_data[1][j] = [num |-> ret.data.values[DatePos(ret.out.dates_test[1][j])], den |-> 1, rad |-> 1]

\* a normal result without scaling on a series whose prices differ
C9_Witness == NormalReturn /\ PREPROCESSER = "none" /\ Len(ret.out.X_train[1]) >= 2 /\ \E i, j \in DOMAIN ret.data.values : ret.data.values[i] # ret.data.values[j]

\* C10: every scaler the configuration can select has an exact inverse: for the
\* scaler prepare fitted, inverse_transform(transform(x)) = x for every x it was fit on.
C10_ExactInverse ==
    (NormalReturn /\ ~IsNone(ret.out.scaler)) =>
        LET sc == ret.out.scaler[1]
        IN  /\ HasInverseTransform(sc)
            /\ \A i \in DOMAIN sc.fit_X : InverseTransform(sc, Transform(sc, sc.fit_X[i])) = [num |-> sc.fit_X[i], den |-> 1, rad |-> 1]

(* ================== properties of parse_args + prepare ================= *)
\* the parallel arrays of the two partitions: inputs, targets, input dates, target dates
Partitions == {<<"X_train", "y_train", "X_dates_train", "y_dates_train">>, <<"X_valid", "y_valid", "X_dates_valid", "y_dates_valid">>}

\* earliest windows train, latest validate, each partition in increasing start order
Chronological ==
    /\ \A i \in DOMAIN ret.out.X_dates_train[1] : \A j \in DOMAIN ret.out.X_dates_valid[1] : ret.out.X_dates_train[1][i][1] < ret.out.X_dates_valid[1][j][1]
    /\ \A f \in {"X_dates_train", "X_dates_valid"} : \A i, j \in DOMAIN ret.out[f][1] : i < j => ret.out[f][1][i][1] < ret.out[f][1][j][1]

\* the i-th entries of a partition's four arrays are the four slices of one window
Aligned ==
    \A p \in Partitions :
        /\ DOMAIN ret.out[p[2]][1] = DOMAIN ret.out[p[1]][1] /\ DOMAIN ret.out[p[3]][1] = DOMAIN ret.out[p[1]][1] /\ DOMAIN ret.out[p[4]][1] = DOMAIN ret.out[p[1]][1]
        /\ \A i \in DOMAIN ret.out[p[1]][1] : \E k \in DOMAIN ret.windows.input_dates :
            /\ ret.out[p[1]][1][i] = ret.windows.input_prices[k]
            /\ ret.out[p[2]][1][i] = ret.windows.next_n_day_prices[k]
            /\ ret.out[p[3]][1][i] = ret.windows.input_dates[k]
            /\ ret.out[p[4]][1][i] = ret.windows.next_n_day_dates[k]

\* every window is in exactly one place of the two partitions
EachWindowOnce ==
    \A k \in DOMAIN ret.windows.input_dates :
        Cardinality({<<f, i>> \in {"X_dates_train", "X_dates_valid"} \X (1..Len(ret.windows.input_dates)) : i \in DOMAIN ret.out[f][1] /\ ret.out[f][1][i] = ret.windows.input_dates[k]}) = 1

\* C8: in a run of parse_args followed by prepare, --no_shuffle on the command
\* line gives the chronological split, and its absence hands the windows to the
\* shuffling split (each window placed once, in an order the draw decides); in
\* both modes the i-th entries of a partition's four arrays come from one window.
C8_SplitMode ==
    [][((ret' # ret \/ args' # args) /\ NormalReturn') =>
        /\ ~IsNone(other_args)
        /\ other_args[1].no_shuffle => (~args'[1].no_shuffle /\ Chronological')
        /\ ~other_args[1].no_shuffle => (args'[1].no_shuffle /\ EachWindowOnce')
        /\ Aligned']_vars

\* --no_shuffle was passed and prepare returned a training partition of several windows
C8_Witness ==
    /\ NormalReturn
    /\ ~IsNone(other_args) /\ other_args[1].no_shuffle
    /\ ns_parser = ParseResult(other_args[1]) /\ args = Some(ArgsFromNamespace(ns_parser[1]))
    /\ Len(ret.out.X_train[1]) >= 2


(* ============================== forecast =============================== *)
\* model.predict(input_values.reshape(1, -1, 1)).reshape(-1, 1): the predictor is
\* called on the window; it raises, or gives its output as one column
Predict(model, input_values) == [called_on |-> <<input_values>>, raised |-> model.fails, output |-> IF model.fails THEN <<>> ELSE model.output]

\* a frame whose index is the dates backwards
DataFrameReversedIndex(values, index) == [outcome |-> "return", exc |-> None, df |-> Some([index |-> [k \in DOMAIN index |-> index[Len(index) + 1 - k]], values |-> values])]

\* a frame that cuts the values to the index instead of rejecting them
DataFrameTruncating(values, index) == [outcome |-> "return", exc |-> None, df |-> Some([index |-> index, values |-> SubSeq(values, 1, Min(Len(values), Len(index)))])]

\* pd.DataFrame(values, index=index, columns=[...]): row k is (index[k], values[k]);
\* pandas raises ValueError when the number of rows is not the length of the index
DataFrame(values, index) == IF Len(values) # Len(index) THEN [outcome |-> "raise", exc |-> Some("ValueError"), df |-> None] ELSE [outcome |-> "return", exc |-> None, df |-> Some([index |-> index, values |-> values])]

\* forecast(input_values, future_dates, model, scaler); python looks up
\* scaler.inverse_transform before it evaluates the call of model.predict
forecast(input_values, future_dates, model, scaler) ==
    IF ~IsNone(scaler) /\ ~HasInverseTransform(Get(scaler))
    THEN [outcome |-> "raise", exc |-> Some("AttributeError"), predict_calls |-> <<>>, future_values |-> None, df_future |-> None]
    ELSE LET p == Predict(model, input_values)
             future_values == IF IsNone(scaler) THEN p.output ELSE [k \in DOMAIN p.output |-> InverseTransform(Get(scaler), p.output[k])]
             frame == DataFrame(future_values, future_dates)
         IN  IF p.raised
             THEN [outcome |-> "raise", exc |-> Some("PredictorError"), predict_calls |-> p.called_on, future_values |-> None, df_future |-> None]
             ELSE [outcome |-> frame.outcome, exc |-> frame.exc, predict_calls |-> p.called_on, future_values |-> Some(future_values), df_future |-> frame.df]

\* the scaler prepare hands on for the series: fit on the prices, or None
FittedScaler(preprocesser, data) == IF IsNone(SelectScaler(preprocesser)) THEN None ELSE Some(Fit(Get(SelectScaler(preprocesser)), FitInput(data, data)))

\* a price as the model sees it: scaled when there is a scaler
Scaled(scaler, x) == IF IsNone(scaler) THEN Raw(x) ELSE Transform(Get(scaler), x)

\* the values a predictor may put out, in the units the model was trained on
PredictorValues(scaler) == {Scaled(scaler, x) : x \in Prices}

\* the predictors: one that raises, and every output of up to MaxPredict + 1 values
Predictors(scaler) == {[fails |-> TRUE, output |-> <<>>]} \cup UNION {{[fails |-> FALSE, output |-> o] : o \in [1..n -> PredictorValues(scaler)]} : n \in 0..(MaxPredict + 1)}

\* the calls of forecast: the last n_input scaled prices of a series, the dates after it
ForecastCalls(preprocesser, data) ==
    LET scaler == FittedScaler(preprocesser, data)
    IN  {[input_values |-> [k \in DOMAIN PyTail(data.values, n_in) |-> Scaled(scaler, PyTail(data.values, n_in)[k])],
          future_dates |-> [k \in 1..n_pred |-> Len(data.values) + k],
          model |-> m, scaler |-> scaler, result |-> NoCall] : n_in \in 1..MaxInput, n_pred \in 1..MaxPredict, m \in Predictors(scaler)}

InitForecast ==
    /\ ORIGINAL_TF_XLA_FLAGS = None
    /\ ORIGINAL_TF_FORCE_GPU_ALLOW_GROWTH = None
    /\ environ = [TF_XLA_FLAGS |-> ORIGINAL_TF_XLA_FLAGS, TF_FORCE_GPU_ALLOW_GROWTH |-> ORIGINAL_TF_FORCE_GPU_ALLOW_GROWTH]
    /\ PREPROCESSER \in Preprocessers
    /\ series \in CycleSeries \ {Series(<<>>, <<>>)}
    /\ other_args = None /\ ns_parser = None /\ args = None /\ ret = NoCall
    /\ fc \in ForecastCalls(PREPROCESSER, series)
    /\ kpi = NoCall /\ view = NoCall /\ sia = NoCall

\* forecast(input_values, future_dates, model, scaler)
Forecast ==
    /\ fc.result = NoCall
    /\ fc' = [fc EXCEPT !.result = forecast(fc.input_values, fc.future_dates, fc.model, fc.scaler)]
    /\ UNCHANGED <<environ, ORIGINAL_TF_XLA_FLAGS, ORIGINAL_TF_FORCE_GPU_ALLOW_GROWTH, PREPROCESSER, series, other_args, ns_parser, args, ret, kpi, view, sia>>

NextForecast == Forecast

SpecForecast == InitForecast /\ [][NextForecast]_vars

\* forecast was called and returned a frame
ForecastReturned == fc # NoCall /\ fc.result.outcome = "return"
\* forecast was called and raised
ForecastRaised == fc # NoCall /\ fc.result.outcome = "raise"

\* C11: a forecast that is returned has future_dates as its timestamps, same order
\* and length, and its k-th row holds the k-th value of the predictor's output
\* (unscaled when there is a scaler), whatever the values are
C11_DatesAligned ==
    ForecastReturned =>
        /\ fc.result.df_future[1].index = fc.future_dates
        /\ Len(fc.result.df_future[1].values) = Len(fc.future_dates)
        /\ \A k \in DOMAIN fc.future_dates : fc.result.df_future[1].values[k] = (IF IsNone(fc.scaler) THEN fc.model.output[k] ELSE InverseTransform(Get(fc.scaler), fc.model.output[k]))

\* a returned forecast of two dates whose two values differ
C11_Witness == ForecastReturned /\ Len(fc.future_dates) = 2 /\ fc.model.output[1] # fc.model.output[2] /\ fc.result.df_future[1].index = fc.future_dates


\* C12: each call of forecast invokes the predictor exactly once, on the input
\* window it was given; the values it returns are the inverse transform of the
\* predictor's output when there is a scaler, and the output itself when not
C12_PredictOnce ==
    (fc # NoCall /\ fc.result # NoCall) =>
        /\ fc.result.predict_calls = <<fc.input_values>>
        /\ ForecastReturned => fc.result.df_future[1].values = (IF IsNone(fc.scaler) THEN fc.model.output ELSE [k \in DOMAIN fc.model.output |-> InverseTransform(Get(fc.scaler), fc.model.output[k])])

\* the predictor of the call either raises or gives an output of the wrong length
PredictorUnusable == fc.model.fails \/ Len(fc.model.output) # Len(fc.future_dates)

\* C13: when the predictor raises, or its output is not as long as future_dates,
\* forecast raises to its caller: the predictor is not called a second time, no
\* frame is returned, and a failure of the predictor comes out as it went in
C13_FailurePropagates ==
    (fc # NoCall /\ fc.result # NoCall /\ PredictorUnusable) =>
        /\ ForecastRaised
        /\ IsNone(fc.result.df_future)
        /\ Len(fc.result.predict_calls) <= 1
        /\ fc.result.predict_calls # <<>> => fc.result.exc = Some(IF fc.model.fails THEN "PredictorError" ELSE "ValueError")

\* a scaled forecast whose predictor gave one value too many: ValueError after one call
C13_Witness == ForecastRaised /\ ~IsNone(fc.scaler) /\ ~fc.model.fails /\ Len(fc.model.output) = Len(fc.future_dates) + 1 /\ fc.result.exc = Some("ValueError") /\ Len(fc.result.predict_calls) = 1



(* ======================= print_prediction_kpis ========================= *)
\* the metrics are computed exactly: a rational is Num(n, d, 1), a square root of
\* a rational keeps its radicand; float nan and inf are two values of their own
Rat(n, d) == Num(n, d, 1)
NaN == [num |-> 0, den |-> 0, rad |-> 1]
Inf == [num |-> 1, den |-> 0, rad |-> 1]
IsFinite(x) == x.den > 0

RECURSIVE IsqrtIn(_, _, _)
\* the largest r in lo..hi with r * r <= n
IsqrtIn(n, lo, hi) == IF lo >= hi THEN lo ELSE LET mid == (lo + hi + 1) \div 2 IN IF mid * mid <= n THEN IsqrtIn(n, mid, hi) ELSE IsqrtIn(n, lo, mid - 1)
\* floor(sqrt(n)) for 0 <= n < 2^31
Isqrt(n) == IsqrtIn(n, 0, 46340)

\* x * x for a finite x
Square(x) == Num(x.num * x.num, x.den * x.den * x.rad, 1)

\* np.sqrt(q) for a rational q >= 0: a/b is a / sqrt(a * b), rational when a * b is a square
Sqrt(q) == IF q.num = 0 THEN Rat(0, 1) ELSE IF Isqrt(q.num * q.den) * Isqrt(q.num * q.den) = q.num * q.den THEN Rat(q.num, Isqrt(q.num * q.den)) ELSE [num |-> q.num, den |-> 1, rad |-> q.num * q.den]

\* |x| in thousandths, rounded as the format does: to nearest, a tie to even
Round3(x) == IF x.rad = 1
             THEN LET fl == (1000 * Abs(x.num)) \div x.den
                      twice == 2 * ((1000 * Abs(x.num)) % x.den)
                  IN  IF twice > x.den \/ (twice = x.den /\ fl % 2 = 1) THEN fl + 1 ELSE fl
             ELSE (Isqrt((4000000 * Square(x).num) \div Square(x).den) + 1) \div 2

\* f"{x:.3f}": "nan", "inf", or a sign and the digits, held as thousandths
Format3(x) == IF x = NaN THEN [text |-> "nan", neg |-> FALSE, thousandths |-> 0] ELSE IF x = Inf THEN [text |-> "inf", neg |-> FALSE, thousandths |-> 0] ELSE [text |-> "digits", neg |-> x.num < 0, thousandths |-> Round3(x)]

RECURSIVE SeqProd(_)
SeqProd(s) == IF s = <<>> THEN 1 ELSE Head(s) * SeqProd(Tail(s))

\* numpy broadcasting of two vectors: the lengths agree or one of them is 1
Broadcastable(a, b) == Len(a) = Len(b) \/ Len(a) = 1 \/ Len(b) = 1
BroadcastLen(a, b) == IF Len(a) = 1 THEN Len(b) ELSE Len(a)
BroadcastAt(a, i) == IF Len(a) = 1 THEN a[1] ELSE a[i]

\* the absolute errors |y_true - y_pred| and their squares, elementwise
AbsErrors(y_true, y_pred) == [i \in 1..BroadcastLen(y_true, y_pred) |-> Abs(BroadcastAt(y_true, i) - BroadcastAt(y_pred, i))]
SquaredErrors(y_true, y_pred) == [i \in 1..BroadcastLen(y_true, y_pred) |-> AbsErrors(y_true, y_pred)[i] * AbsErrors(y_true, y_pred)[i]]

\* the same mean with each ratio taken over t[i] itself, sign and all
MeanOfSignedRatios(e, t) == LET D == SeqProd([i \in DOMAIN t |-> Abs(t[i])]) IN Rat(SeqSum([i \in DOMAIN e |-> (IF t[i] < 0 THEN 0 - 1 ELSE 1) * e[i] * (D \div Abs(t[i]))]), Len(e) * D)

\* the mean of e[i] / |t[i]| over i, for t without a zero, as one fraction
MeanOfRatios(e, t) == LET D == SeqProd([i \in DOMAIN t |-> Abs(t[i])]) IN Rat(SeqSum([i \in DOMAIN e |-> e[i] * (D \div Abs(t[i]))]), Len(e) * D)

\* np.mean(np.abs(ratios)) for the ratios (y_true - y_pred) / y_true: x/0 is inf,
\* 0/0 is nan, the mean of nothing is nan; none of these raises
MeanAbsRatio(e, t) == IF Len(e) = 0 \/ (\E i \in DOMAIN e : t[i] = 0 /\ e[i] = 0) THEN NaN ELSE IF \E i \in DOMAIN e : t[i] = 0 THEN Inf ELSE MeanOfRatios(e, t)

\* x * 100
Times100(x) == IF IsFinite(x) THEN Rat(100 * x.num, x.den) ELSE x

\* mean_absolute_percentage_error(y_true, y_pred)
mean_absolute_percentage_error(y_true, y_pred) ==
    IF ~Broadcastable(y_true, y_pred) THEN [raised |-> TRUE, value |-> NaN, broadcast |-> FALSE]
    ELSE [raised |-> FALSE, value |-> Times100(MeanAbsRatio(AbsErrors(y_true, y_pred), [i \in 1..BroadcastLen(y_true, y_pred) |-> BroadcastAt(y_true, i)])), broadcast |-> Len(y_true) # Len(y_pred)]

\* sklearn's input check, shared by its metrics: ValueError unless both vectors
\* have the same number of samples, at least one
CheckRegTargets(y_true, y_pred) == Len(y_true) = Len(y_pred) /\ Len(y_true) >= 1

\* n times the total sum of squares of y_true about its mean
TotalSpread(y_true) == Len(y_true) * SeqSum([i \in DOMAIN y_true |-> y_true[i] * y_true[i]]) - SeqSum(y_true) * SeqSum(y_true)

\* sklearn.metrics.r2_score: nan for fewer than two samples; for a constant y_true
\* 1.0 when the prediction is exact and 0.0 when not
r2_score(y_true, y_pred) ==
    IF Len(y_true) < 2 THEN NaN
    ELSE IF TotalSpread(y_true) = 0 THEN (IF SeqSum(SquaredErrors(y_true, y_pred)) = 0 THEN Rat(1, 1) ELSE Rat(0, 1))
    ELSE Rat(TotalSpread(y_true) - Len(y_true) * SeqSum(SquaredErrors(y_true, y_pred)), TotalSpread(y_true))

\* sklearn.metrics.mean_absolute_error
mean_absolute_error(y_true, y_pred) == Rat(SeqSum(AbsErrors(y_true, y_pred)), Len(y_true))

\* a root statistic accumulated on its own: the mean of the roots of the squared errors
RootsAveraged(y_true, y_pred, squared) == IF squared THEN Rat(SeqSum(SquaredErrors(y_true, y_pred)), Len(y_true)) ELSE Rat(SeqSum(AbsErrors(y_true, y_pred)), Len(y_true))

\* sklearn.metrics.mean_squared_error(y_true, y_pred, squared=...)
mean_squared_error(y_true, y_pred, squared) == IF squared THEN Rat(SeqSum(SquaredErrors(y_true, y_pred)), Len(y_true)) ELSE Sqrt(Rat(SeqSum(SquaredErrors(y_true, y_pred)), Len(y_true)))



\* a call that raised ValueError after computing the metrics named in computed
KpisRaised(computed, broadcast) == [outcome |-> "raise", exc |-> Some("ValueError"), computed |-> computed, broadcast |-> broadcast, values |-> None, kpis |-> None, printed |-> None]

\* the kpis dictionary: each value formatted to three decimals, MAPE with " %"
FormatKpis(values) == [MAPE |-> <<Format3(values.MAPE), " %">>, R2 |-> <<Format3(values.R2)>>, MAE |-> <<Format3(values.MAE)>>, MSE |-> <<Format3(values.MSE)>>, RMSE |-> <<Format3(values.RMSE)>>]

\* print_prediction_kpis(real, pred): the dictionary is built entry by entry, MAPE
\* first, and printed (by tabulate or by to_string) once it is complete
print_prediction_kpis(real, pred) ==
    LET mape == mean_absolute_percentage_error(real, pred)
        values == [MAPE |-> mape.value, R2 |-> r2_score(real, pred), MAE |-> mean_absolute_error(real, pred), MSE |-> mean_squared_error(real, pred, TRUE), RMSE |-> mean_squared_error(real, pred, FALSE)]
    IN  IF mape.raised THEN KpisRaised(<<>>, FALSE)
        ELSE IF ~CheckRegTargets(real, pred) THEN KpisRaised(<<"MAPE">>, mape.broadcast)
        ELSE [outcome |-> "return", exc |-> None, computed |-> <<"MAPE", "R2", "MAE", "MSE", "RMSE">>, broadcast |-> FALSE, values |-> Some(values), kpis |-> Some(FormatKpis(values)), printed |-> Some(FormatKpis(values))]

\* the entries of the vectors scored: prices and their negatives, and zero
ScoreValues == (0 - MaxPrice)..MaxPrice
\* vectors of a given length
Vectors(n, S) == [1..n -> S]
\* a call not yet made
ScoreCall(r, q) == [real |-> r, pred |-> q, result |-> NoCall]
\* the pairs of different lengths up to MaxPredict + 1
UnequalLengths == {x \in (0..(MaxPredict + 1)) \X (0..(MaxPredict + 1)) : x[1] # x[2]}

InitScore ==
    /\ ORIGINAL_TF_XLA_FLAGS = None
    /\ ORIGINAL_TF_FORCE_GPU_ALLOW_GROWTH = None
    /\ environ = [TF_XLA_FLAGS |-> ORIGINAL_TF_XLA_FLAGS, TF_FORCE_GPU_ALLOW_GROWTH |-> ORIGINAL_TF_FORCE_GPU_ALLOW_GROWTH]
    /\ PREPROCESSER = Unset
    /\ series = Series(<<>>, <<>>)
    /\ other_args = None /\ ns_parser = None /\ args = None /\ ret = NoCall
    /\ fc = NoCall
    \* every pair of vectors of one length up to MaxPredict, or a pair of price
    \* vectors of two different lengths
    /\ \/ \E n \in 0..MaxPredict : \E r \in Vectors(n, ScoreValues), q \in Vectors(n, ScoreValues) : kpi = ScoreCall(r, q)
       \/ \E nm \in UnequalLengths : \E r \in Vectors(nm[1], Prices), q \in Vectors(nm[2], Prices) : kpi = ScoreCall(r, q)
    /\ view = NoCall /\ sia = NoCall

\* print_prediction_kpis(real, pred)
Score ==
    /\ kpi.result = NoCall
    /\ kpi' = [kpi EXCEPT !.result = print_prediction_kpis(kpi.real, kpi.pred)]
    /\ UNCHANGED <<environ, ORIGINAL_TF_XLA_FLAGS, ORIGINAL_TF_FORCE_GPU_ALLOW_GROWTH, PREPROCESSER, series, other_args, ns_parser, args, ret, fc, view, sia>>

NextScore == Score

SpecScore == InitScore /\ [][NextScore]_vars

\* print_prediction_kpis was called and printed its scorecard
Scored == kpi # NoCall /\ kpi.result.outcome = "return"
\* the actual vector of the call has no zero entry
NoZeroActual == \A i \in DOMAIN kpi.real : kpi.real[i] # 0
\* the figure printed for the exact value x
Shown(x) == <<Format3(x)>>

\* C14 as stated: for equal-length vectors with no zero actual entry the MAPE is
\* mean(|actual - predicted| / actual) * 100, each error divided by the actual
\* value itself
C14_MapeSigned ==
    (Scored /\ NoZeroActual) =>
        /\ kpi.result.values[1].MAPE = Times100(MeanOfSignedRatios(AbsErrors(kpi.real, kpi.pred), kpi.real))
        /\ kpi.result.kpis[1].MAPE = <<Format3(Times100(MeanOfSignedRatios(AbsErrors(kpi.real, kpi.pred), kpi.real))), " %">>

\* the sum of |actual - predicted| / |actual| over the entries, as a fraction
RECURSIVE SumAbsPctError(_, _)
SumAbsPctError(a, p) == IF a = <<>> THEN Rat(0, 1) ELSE LET rest == SumAbsPctError(Tail(a), Tail(p)) IN Rat(Abs(Head(a) - Head(p)) * rest.den + rest.num * Abs(Head(a)), Abs(Head(a)) * rest.den)

\* C14 amended: for equal-length vectors with no zero actual entry the MAPE is
\* mean(|actual - predicted| / |actual|) * 100: the absolute value is taken of
\* the whole ratio, so a negative actual value counts by its magnitude
C14_MapeAbsolute ==
    (Scored /\ NoZeroActual) =>
        /\ kpi.result.values[1].MAPE = Rat(100 * SumAbsPctError(kpi.real, kpi.pred).num, Len(kpi.real) * SumAbsPctError(kpi.real, kpi.pred).den)
        /\ kpi.result.kpis[1].MAPE = <<Format3(kpi.result.values[1].MAPE), " %">>

\* actual <<-2, 1>> against predicted <<-1, 1>>: one error of 50 %, mean 25 %
C14_Witness == Scored /\ kpi.real = <<0 - 2, 1>> /\ kpi.pred = <<0 - 1, 1>> /\ kpi.result.values[1].MAPE = Rat(25, 1) /\ kpi.result.kpis[1].MAPE[1].thousandths = 25000



\* C15: an actual vector with no zero entry scored against itself gives
\* MAE = 0, MSE = 0, RMSE = 0, MAPE = 0 and R2 = 1.0
C15_PerfectScore ==
    (Scored /\ NoZeroActual /\ kpi.pred = kpi.real) =>
        /\ kpi.result.values[1] = [MAPE |-> Rat(0, 1), R2 |-> Rat(1, 1), MAE |-> Rat(0, 1), MSE |-> Rat(0, 1), RMSE |-> Rat(0, 1)]
        /\ kpi.result.printed[1] = [MAPE |-> <<Format3(Rat(0, 1)), " %">>, R2 |-> Shown(Rat(1, 1)), MAE |-> Shown(Rat(0, 1)), MSE |-> Shown(Rat(0, 1)), RMSE |-> Shown(Rat(0, 1))]

\* C16: whenever a scorecard is printed, its RMSE is the square root of its MSE:
\* the value is the non-negative root of the MSE value, and the two figures are
\* that value and its root, each written to three decimals
C16_RmseIsRootOfMse ==
    Scored =>
        /\ Square(kpi.result.values[1].RMSE) = kpi.result.values[1].MSE
        /\ kpi.result.values[1].RMSE.num >= 0
        /\ kpi.result.printed[1].MSE = Shown(kpi.result.values[1].MSE)
        /\ kpi.result.printed[1].RMSE = Shown(Sqrt(kpi.result.values[1].MSE))

\* actual <<1, 1>> against predicted <<1, 2>>: MSE 0.500, RMSE 0.707
C16_Witness == Scored /\ kpi.real = <<1, 1>> /\ kpi.pred = <<1, 2>> /\ kpi.result.printed[1].MSE[1].thousandths = 500 /\ kpi.result.printed[1].RMSE[1].thousandths = 707

\* C17: for vectors of different lengths, a length of 1 included, the call fails
\* with a shape error and prints no scorecard, and no metric has been computed by
\* broadcasting one vector against the other
C17_ShapeMismatch ==
    (kpi # NoCall /\ kpi.result # NoCall /\ Len(kpi.real) # Len(kpi.pred)) =>
        /\ kpi.result.outcome = "raise" /\ kpi.result.exc = Some("ValueError")
        /\ IsNone(kpi.result.printed) /\ IsNone(kpi.result.kpis)
        /\ kpi.result.computed = <<>> /\ ~kpi.result.broadcast



(* ================== prepare on degenerate arguments ==================== *)
\* the arguments with window lengths from 0, the cutoff absent or the last date
EdgeArgs(data) == [n_input_days : 0..MaxInput, n_predict_days : 0..MaxPredict, test_size : TestSizes, s_end_date : {None, Some(Len(data.values))}, no_shuffle : BOOLEAN]

\* the call is degenerate: no data, or a window length that is not positive
Degenerate(data, a) == Len(data.values) = 0 \/ a.n_input_days <= 0 \/ a.n_predict_days <= 0

InitPrepareEdge ==
    /\ ORIGINAL_TF_XLA_FLAGS = None
    /\ ORIGINAL_TF_FORCE_GPU_ALLOW_GROWTH = None
    /\ environ = [TF_XLA_FLAGS |-> ORIGINAL_TF_XLA_FLAGS, TF_FORCE_GPU_ALLOW_GROWTH |-> ORIGINAL_TF_FORCE_GPU_ALLOW_GROWTH]
    /\ PREPROCESSER \in Preprocessers
    /\ series \in CycleSeries
    /\ \E a \in EdgeArgs(series) : Degenerate(series, a) /\ args = Some(a)
    /\ other_args = None /\ ns_parser = None /\ ret = NoCall
    /\ fc = NoCall /\ kpi = NoCall /\ view = NoCall /\ sia = NoCall

SpecPrepareEdge == InitPrepareEdge /\ [][NextPrepare]_vars

\* C18: called with an empty series, or with n_input_days <= 0 or
\* n_predict_days <= 0, prepare fails before it builds a window or splits; it
\* never returns a normal result (insufficient_data = False)
C18_FailFast ==
    (ret.outcome # "none" /\ Degenerate(series, args[1])) =>
        /\ ~NormalReturn
        /\ ret.reached # "split"



(* ================= the TensorFlow environment variables ================ *)
\* what the user may have exported before the import: nothing, an empty string,
\* a flag parse_args also knows, a flag of the user's own
UserXlaFlagsWide == {None, Some({}), Some({"--tf_xla_cpu_global_jit"}), Some({"--tf_xla_auto_jit=1"})}
UserGrowthWide == {None, Some("true"), Some("false")}

\* every combination of --xla_cpu, --xla_gpu and --force_gpu_allow_growth (absent,
\* or one of its choices), and two command lines the parser rejects
EnvArgLists == {[NoArgs EXCEPT !.xla_cpu = c, !.xla_gpu = g, !.growth = w] : c \in BOOLEAN, g \in BOOLEAN, w \in {None} \cup {Some(x) : x \in GrowthChoices}}
               \cup {[NoArgs EXCEPT !.xla_cpu = TRUE, !.h = TRUE], [NoArgs EXCEPT !.xla_gpu = TRUE, !.growth = Some("maybe")]}

\* the environment as it was at import
OriginalEnviron == [TF_XLA_FLAGS |-> ORIGINAL_TF_XLA_FLAGS, TF_FORCE_GPU_ALLOW_GROWTH |-> ORIGINAL_TF_FORCE_GPU_ALLOW_GROWTH]

InitEnv ==
    /\ ORIGINAL_TF_XLA_FLAGS \in UserXlaFlagsWide
    /\ ORIGINAL_TF_FORCE_GPU_ALLOW_GROWTH \in UserGrowthWide
    /\ environ = OriginalEnviron
    /\ PREPROCESSER = Unset
    /\ series = Series(<<>>, <<>>)
    /\ other_args = None /\ ns_parser = None /\ args = None /\ ret = NoCall
    /\ fc = NoCall /\ kpi = NoCall /\ view = NoCall /\ sia = NoCall

\* parse_args(prog, description, other_args) on the environment options
ParseEnvArgs ==
    \E a \in EnvArgLists :
        /\ other_args' = Some(a)
        /\ ns_parser' = ParseResult(a)
        /\ environ' = EnvironAfterCall(environ, ORIGINAL_TF_XLA_FLAGS, ParseResult(a))
        /\ UNCHANGED <<ORIGINAL_TF_XLA_FLAGS, ORIGINAL_TF_FORCE_GPU_ALLOW_GROWTH, PREPROCESSER, series, args, ret>>
        /\ UNCHANGED auxVars

NextEnv == ParseEnvArgs \/ RestoreEnv

SpecEnv == InitEnv /\ [][NextEnv]_vars

\* C19: whatever parse_args calls came before, a call of restore_env leaves
\* TF_XLA_FLAGS and TF_FORCE_GPU_ALLOW_GROWTH with the values they had at import,
\* absent where they were absent; called again on that environment it changes
\* nothing
C19_RestoreExact ==
    [][RestoreEnv =>
        /\ environ'.TF_XLA_FLAGS = ORIGINAL_TF_XLA_FLAGS
        /\ environ'.TF_FORCE_GPU_ALLOW_GROWTH = ORIGINAL_TF_FORCE_GPU_ALLOW_GROWTH
        /\ ORIGINAL_TF_XLA_FLAGS' = ORIGINAL_TF_XLA_FLAGS /\ ORIGINAL_TF_FORCE_GPU_ALLOW_GROWTH' = ORIGINAL_TF_FORCE_GPU_ALLOW_GROWTH
        /\ environ = OriginalEnviron => environ' = environ]_vars

\* parse_args was last called with --xla_cpu and wrote both variables, neither was
\* set at import, and both are absent again: restore_env has run since
C19_Witness ==
    /\ ~IsNone(ns_parser) /\ ns_parser[1].b_xla_cpu /\ ns_parser[1].s_force_gpu_allow_growth = "true"
    /\ IsNone(ORIGINAL_TF_XLA_FLAGS) /\ IsNone(ORIGINAL_TF_FORCE_GPU_ALLOW_GROWTH)
    /\ environ = [TF_XLA_FLAGS |-> None, TF_FORCE_GPU_ALLOW_GROWTH |-> None]



\* the last parse_args call returned a namespace
ParsedEnv == ~IsNone(other_args) /\ ~IsNone(ns_parser)

\* C24: after a parse_args call with --force_gpu_allow_growth default,
\* TF_FORCE_GPU_ALLOW_GROWTH holds the value the user had at import (absent when
\* it was absent), whatever parse_args calls came before, an earlier "true" or
\* "false" with no restore_env since included
C24_DefaultKeepsUserValue ==
    (ParsedEnv /\ ns_parser[1].s_force_gpu_allow_growth = "default") =>
        environ.TF_FORCE_GPU_ALLOW_GROWTH = ORIGINAL_TF_FORCE_GPU_ALLOW_GROWTH

\* the flags one call requests
RequestedXlaFlags(ns) ==
    (IF ns.b_xla_cpu \/ ns.b_xla_gpu THEN {"--tf_xla_enable_xla_devices"} ELSE {})
    \cup (IF ns.b_xla_cpu THEN {"--tf_xla_cpu_global_jit"} ELSE {})
    \cup (IF ns.b_xla_gpu THEN {"--tf_xla_auto_jit=2"} ELSE {})

\* the flags in a value of TF_XLA_FLAGS, none when it is absent or empty
FlagsIn(value) == IF IsNone(value) THEN {} ELSE Get(value)

\* C25: after a parse_args call that returned a namespace the flags in
\* TF_XLA_FLAGS are the user's flags at import and the flags this call requested,
\* none from earlier calls; with no XLA option requested and the variable absent
\* at import it is absent afterwards
C25_XlaFlagsExact ==
    [][(ParseEnvArgs /\ ~IsNone(ns_parser')) =>
        /\ FlagsIn(environ'.TF_XLA_FLAGS) = FlagsIn(ORIGINAL_TF_XLA_FLAGS) \cup RequestedXlaFlags(ns_parser'[1])
        /\ (RequestedXlaFlags(ns_parser'[1]) = {} /\ IsNone(ORIGINAL_TF_XLA_FLAGS)) => IsNone(environ'.TF_XLA_FLAGS)]_vars

\* C26: a parse_args call that returns None (help, or the parser exited on a
\* rejected argument) leaves TF_XLA_FLAGS and TF_FORCE_GPU_ALLOW_GROWTH as they were
C26_NoneLeavesEnviron ==
    [][(ParseEnvArgs /\ IsNone(ns_parser')) => environ' = environ]_vars

\* --xla_cpu with -h returned None on an environment an earlier call had written:
\* both variables, absent at import, still hold what that call left
C26_Witness ==
    /\ other_args = Some([NoArgs EXCEPT !.xla_cpu = TRUE, !.h = TRUE]) /\ IsNone(ns_parser)
    /\ IsNone(ORIGINAL_TF_XLA_FLAGS) /\ IsNone(ORIGINAL_TF_FORCE_GPU_ALLOW_GROWTH)
    /\ environ = [TF_XLA_FLAGS |-> Some({"--tf_xla_enable_xla_devices", "--tf_xla_auto_jit=2"}), TF_FORCE_GPU_ALLOW_GROWTH |-> Some("false")]

(* ====================== the sorted views =============================== *)
\* most rows in a frame a view is given
MaxRows == MaxInput + 1

\* the views: coinpaprika display_search_results, coinbase display_orders and
\* display_deposits
ViewFunctions == {"display_search_results", "display_orders", "display_deposits"}

\* a frame is its rows in order; a row is its position in the source and the value
\* of the sortby column
Frame(keys) == [i \in DOMAIN keys |-> [id |-> i, key |-> keys[i]]]

\* the rows are in ascending (descending) order of the key
IsAscending(rows) == \A i, j \in DOMAIN rows : i < j => rows[i].key <= rows[j].key
IsDescending(rows) == \A i, j \in DOMAIN rows : i < j => rows[i].key >= rows[j].key

\* df.sort_values(by=sortby, ascending=ascending): the orders pandas may give, the
\* rows of equal key in any order
sort_values(rows, ascending) == {Take(rows, p) : p \in {q \in Permutations0(Len(rows)) : IF ascending THEN IsAscending(Take(rows, q)) ELSE IsDescending(Take(rows, q))}}

\* df.head(n): the first n rows; for a negative n all but the last -n
head(rows, n) == PySlice(rows, 0, n)

\* the call ended at the empty check: the message is printed and nothing else
NoResults == [outcome |-> "return", message |-> TRUE, df |-> None, displayed |-> None, exported |-> None]

\* what is printed: tabulate(frame) under USE_TABULATE_DF; otherwise the bound
\* method df.to_string itself, never called, whose repr holds the frame's repr
Display(use_tabulate, tabulated, df) == IF use_tabulate THEN Some([by |-> "tabulate", rows |-> tabulated]) ELSE Some([by |-> "repr of df.to_string", rows |-> df])

\* export_data(export, dir, name, df): a file is written when a format is given
ExportData(export, df) == IF export = "" THEN None ELSE Some(df)

\* display_search_results(query, category, top, sortby, descend, export), df the
\* frame get_search_results returned, sorted one of the results of sort_values
display_search_results(df0, top, descend, export, use_tabulate, sorted) ==
    IF df0 = <<>> THEN NoResults
    ELSE [outcome |-> "return", message |-> FALSE, df |-> Some(sorted), displayed |-> Display(use_tabulate, head(sorted, top), sorted), exported |-> ExportData(export, sorted)]

\* display_orders(limit, sortby, descend, export) and display_deposits(limit, sortby,
\* deposit_type, descend, export): the frame is sorted and cut, the copy taken
\* before the sort is exported
display_orders(df0, limit, descend, export, use_tabulate, sorted) ==
    IF df0 = <<>> THEN NoResults
    ELSE [outcome |-> "return", message |-> FALSE, df |-> Some(head(sorted, limit)), displayed |-> Display(use_tabulate, head(sorted, limit), head(sorted, limit)), exported |-> ExportData(export, df0)]

\* the calls: a frame of up to MaxRows rows with keys among the prices
ViewCalls == [fn : ViewFunctions, df0 : UNION {{Frame(k) : k \in [1..n -> Prices]} : n \in 0..MaxRows}, limit : 0..MaxRows, descend : BOOLEAN, export : {"", "csv"}, use_tabulate : BOOLEAN, result : {NoCall}]

InitView ==
    /\ ORIGINAL_TF_XLA_FLAGS = None
    /\ ORIGINAL_TF_FORCE_GPU_ALLOW_GROWTH = None
    /\ environ = [TF_XLA_FLAGS |-> ORIGINAL_TF_XLA_FLAGS, TF_FORCE_GPU_ALLOW_GROWTH |-> ORIGINAL_TF_FORCE_GPU_ALLOW_GROWTH]
    /\ PREPROCESSER = Unset
    /\ series = Series(<<>>, <<>>)
    /\ other_args = None /\ ns_parser = None /\ args = None /\ ret = NoCall
    /\ fc = NoCall /\ kpi = NoCall
    /\ view \in ViewCalls
    /\ sia = NoCall

\* one call of a view; each passes its descend argument as ascending
DisplayView ==
    /\ view.result = NoCall
    /\ \E sorted \in sort_values(view.df0, view.descend) :
        view' = [view EXCEPT !.result = IF view.fn = "display_search_results" THEN display_search_results(view.df0, view.limit, view.descend, view.export, view.use_tabulate, sorted) ELSE display_orders(view.df0, view.limit, view.descend, view.export, view.use_tabulate, sorted)]
    /\ UNCHANGED <<environ, ORIGINAL_TF_XLA_FLAGS, ORIGINAL_TF_FORCE_GPU_ALLOW_GROWTH, PREPROCESSER, series, other_args, ns_parser, args, ret, fc, kpi, sia>>

NextView == DisplayView

SpecView == InitView /\ [][NextView]_vars

\* a view was called and put rows on display
Displayed == view # NoCall /\ view.result # NoCall /\ ~IsNone(view.result.displayed)

\* C20: in the three views descend = true gives the rows in descending order of
\* the sortby key and descend = false gives them in ascending order
C20_DescendOrder ==
    Displayed =>
        /\ view.descend => IsDescending(view.result.df[1]) /\ IsDescending(view.result.displayed[1].rows)
        /\ ~view.descend => IsAscending(view.result.df[1]) /\ IsAscending(view.result.displayed[1].rows)



\* display_search_results was called
SearchCalled == view # NoCall /\ view.fn = "display_search_results" /\ view.result # NoCall

\* C21: display_search_results shows at most top records, the first of the sorted
\* result, whatever USE_TABULATE_DF is, and what it exports holds all the records;
\* on an empty search result it prints the message and shows and exports nothing
C21_TopShownAllExported ==
    SearchCalled =>
        IF view.df0 = <<>>
        THEN view.result.message /\ IsNone(view.result.displayed) /\ IsNone(view.result.exported)
        ELSE /\ Len(view.result.displayed[1].rows) <= view.limit
             /\ view.result.displayed[1].rows = SubSeq(view.result.df[1], 1, Len(view.result.displayed[1].rows))
             /\ ~IsNone(view.result.exported) => Len(view.result.exported[1]) = Len(view.df0) /\ {view.result.exported[1][i] : i \in DOMAIN view.df0} = {view.df0[i] : i \in DOMAIN view.df0}



(* ================ SectorIndustryAnalysisController ===================== *)
\* the choices of the -m option of the metric command
metric_choices == {"roa", "roe", "cr", "qr", "de", "tc", "tcs", "tr", "rps", "rg", "eg", "pm", "gp", "gm", "ocf", "om", "fcf", "td", "ebitda", "ebitdam", "rec", "mc", "fte", "er", "bv", "ss", "pb", "beta", "fs", "peg", "ev", "fpe"}

\* the yahoo finance section each key of metric_yf_keys is read from
YfGroup(m) == IF m \in {"mc"} THEN "price" ELSE IF m \in {"fte"} THEN "summaryProfile" ELSE IF m \in {"er", "bv", "ss", "pb", "beta", "fs", "sr", "peg", "ev", "fpe"} THEN "defaultKeyStatistics" ELSE "financialData"

\* the dictionary metric_yf_keys, by its keys
metric_yf_keys == [m \in {"roa", "roe", "cr", "qr", "de", "tc", "tcs", "tr", "rps", "rg", "eg", "pm", "gp", "gm", "ocf", "om", "fcf", "td", "ebitda", "ebitdam", "rec", "mc", "fte", "er", "bv", "ss", "pb", "beta", "fs", "sr", "peg", "ev", "fpe"} |-> YfGroup(m)]

\* the metrics the help text of sama lists
SamaListed == {"roa", "roe", "cr", "qr", "de", "tc", "tcs", "tr", "rps", "rg", "eg", "pm", "gp", "gm", "ocf", "om", "fcf", "td", "ebitda", "ebitdam", "rec", "mc", "fte", "er", "bv", "ss", "pb", "beta", "fs", "sr", "peg", "ev", "fpe"}

mktcap_choices == {"Small", "Mid", "Large", "small", "mid", "large"}
clear_choices == {"industry", "sector", "country", "mktcap"}

\* str.capitalize on a market cap choice
Capitalize(name) == IF name \in {"Small", "small"} THEN "Small" ELSE IF name \in {"Mid", "mid"} THEN "Mid" ELSE "Large"

\* the values the finance database knows
Countries == {"United States", "Germany"}
Sectors == {"Financial Services", "Technology"}
Industries == {"Financial Data & Stock Exchanges", "Software"}

\* the five filters of a controller, the key a cache of stocks data is loaded under
Filters(self) == [country |-> self.country, sector |-> self.sector, industry |-> self.industry, mktcap |-> self.mktcap, exclude_exchanges |-> self.exclude_exchanges]

\* what a command leaves behind: its name and argument, whether the parser gave a
\* namespace, the view it invoked, the exception it raised
Did(cmd, arg, parsed, viewed, exc) == [cmd |-> cmd, arg |-> arg, parsed |-> parsed, viewed |-> viewed, exc |-> exc]

\* __init__(ticker, queue) with no ticker
NewController == [country |-> "United States", sector |-> "Financial Services", industry |-> "Financial Data & Stock Exchanges", mktcap |-> "Large", exclude_exchanges |-> TRUE, ticker |-> <<>>, stocks_data |-> None, tickers |-> <<>>, last |-> Did("__init__", None, TRUE, None, None)]

\* a command whose parser gave no namespace (help, or an argument rejected)
NotParsed(self, cmd, arg) == [self EXCEPT !.last = Did(cmd, arg, FALSE, None, None)]

\* a clear that forgets the cache only
call_clear_cache_only(self, parameter, parsed) == IF ~parsed THEN NotParsed(self, "clear", parameter) ELSE [self EXCEPT !.stocks_data = None, !.last = Did("clear", parameter, TRUE, None, None)]

\* call_clear(other_args): parameter is the -p value, None when it is not given
call_clear(self, parameter, parsed) ==
    IF ~parsed THEN NotParsed(self, "clear", parameter)
    ELSE [self EXCEPT !.industry = IF parameter \in {None, Some("industry")} THEN "" ELSE @,
                      !.sector = IF parameter \in {None, Some("sector")} THEN "" ELSE @,
                      !.country = IF parameter \in {None, Some("country")} THEN "" ELSE @,
                      !.mktcap = IF parameter \in {None, Some("mktcap")} THEN "" ELSE @,
                      !.exclude_exchanges = TRUE,
                      !.ticker = <<>>,
                      !.stocks_data = None,
                      !.last = Did("clear", parameter, TRUE, None, None)]


\* call_exchange(other_args): the flag is flipped when the parser gave a namespace,
\* the cache is emptied either way
call_exchange(self, parsed) == IF parsed THEN [self EXCEPT !.exclude_exchanges = ~@, !.stocks_data = None, !.last = Did("exchange", None, TRUE, None, None)] ELSE [NotParsed(self, "exchange", None) EXCEPT !.stocks_data = None]

\* a statistics command that goes to its view without looking at the filter
StatUnguarded(self, cmd, parsed, filter, view_name) == IF ~parsed THEN NotParsed(self, cmd, None) ELSE [self EXCEPT !.last = Did(cmd, None, TRUE, Some([name |-> view_name, based_on |-> filter]), None)]

\* the body the five statistics commands share: the message when the filter is
\* empty, else the view, called with the filter
Stat(self, cmd, parsed, filter, view_name) ==
    IF ~parsed THEN NotParsed(self, cmd, None)
    ELSE IF filter = "" THEN [self EXCEPT !.last = Did(cmd, None, TRUE, None, None)]
    ELSE [self EXCEPT !.last = Did(cmd, None, TRUE, Some([name |-> view_name, based_on |-> filter]), None)]

call_cps(self, parsed) == Stat(self, "cps", parsed, self.country, "display_companies_per_sector_in_country")
call_cpic(self, parsed) == Stat(self, "cpic", parsed, self.country, "display_companies_per_industry_in_country")
call_cpis(self, parsed) == Stat(self, "cpis", parsed, self.sector, "display_companies_per_industry_in_sector")
call_cpcs(self, parsed) == Stat(self, "cpcs", parsed, self.sector, "display_companies_per_country_in_sector")
call_cpci(self, parsed) == Stat(self, "cpci", parsed, self.industry, "display_companies_per_country_in_industry")



\* str.upper(), on a string held as the sequence of its characters
LowerCase == <<"a", "b", "c", "d", "e", "f", "g", "h", "i", "j", "k", "l", "m", "n", "o", "p", "q", "r", "s", "t", "u", "v", "w", "x", "y", "z">>
UpperCase == <<"A", "B", "C", "D", "E", "F", "G", "H", "I", "J", "K", "L", "M", "N", "O", "P", "Q", "R", "S", "T", "U", "V", "W", "X", "Y", "Z">>
UpperChar(c) == IF \E i \in 1..26 : LowerCase[i] = c THEN UpperCase[CHOOSE i \in 1..26 : LowerCase[i] = c] ELSE c
Upper(str) == [i \in 1..Len(str) |-> UpperChar(str[i])]

\* str.split(".")[0]: what stands before the first dot, all of it when there is none
BeforeDot(str) == IF \E i \in 1..Len(str) : str[i] = "." THEN SubSeq(str, 1, (CHOOSE i \in 1..Len(str) : str[i] = "." /\ \A j \in 1..(i - 1) : str[j] # ".") - 1) ELSE str

\* the ticker call_load stores: upper case, cut at the first dot
LoadedTicker(ticker) == BeforeDot(Upper(ticker))

\* difflib.get_close_matches(word, known, n=1, cutoff=0.7) on the names used here:
\* a name one letter short of a known one matches it, "xyz" matches nothing
get_close_matches(word, known) ==
    LET close == [w \in {"Germny", "Tecnology", "Sofware"} |-> IF w = "Germny" THEN "Germany" ELSE IF w = "Tecnology" THEN "Technology" ELSE "Software"]
    IN IF word \in DOMAIN close /\ close[word] \in known THEN Some(close[word]) ELSE None

\* a filter taken from the quote page: the value itself when the database knows it,
\* else its close match, else the value as it is
FromPage(value, known) == IF value \in known \/ IsNone(get_close_matches(value, known)) THEN value ELSE Get(get_close_matches(value, known))

\* market cap thresholds of call_load, in millions of dollars
SmallBelow == 2000
LargeAbove == 10000
MktcapOf(cap) == IF cap < SmallBelow THEN "Small" ELSE IF cap > LargeAbove THEN "Large" ELSE "Mid"

\* call_load stopped by the KeyError of a key the quote page lacks: what was
\* assigned before stays assigned, the cache is not emptied
LoadRaised(self, ticker) == [self EXCEPT !.last = Did("load", Some(ticker), TRUE, None, Some("KeyError"))]

\* the last steps of call_load: the market cap when the page has a price, then
\* stocks_data = {}
LoadPrice(self, ticker, price) ==
    IF ~IsNone(price) /\ IsNone(price[1].marketCap) THEN LoadRaised(self, ticker)
    ELSE [self EXCEPT !.mktcap = IF IsNone(price) THEN @ ELSE MktcapOf(price[1].marketCap[1]),
                      !.stocks_data = None,
                      !.last = Did("load", Some(ticker), TRUE, None, None)]

\* call_load(other_args): ticker is the -t value, its characters in a sequence;
\* found says stocks_helper.load gave price data; data is the quote page, its
\* summaryProfile and price each None when the page lacks the key, and inside them
\* country, sector, industry and marketCap (in millions) each None when missing.
\* The filters are assigned one by one, so a missing key leaves the earlier ones
\* assigned
call_load(self, ticker, parsed, found, data) ==
    IF ~parsed THEN NotParsed(self, "load", Some(ticker))
    ELSE IF ~found THEN [self EXCEPT !.last = Did("load", Some(ticker), TRUE, None, None)]
    ELSE LET named == [self EXCEPT !.ticker = LoadedTicker(ticker)]
             profile == data.summaryProfile[1]
             in_country == [named EXCEPT !.country = FromPage(profile.country[1], Countries)]
             in_sector == [in_country EXCEPT !.sector = FromPage(profile.sector[1], Sectors)]
             in_industry == [in_sector EXCEPT !.industry = FromPage(profile.industry[1], Industries)]
         IN IF IsNone(data.summaryProfile) THEN LoadPrice(named, ticker, data.price)
            ELSE IF IsNone(profile.country) THEN LoadRaised(named, ticker)
            ELSE IF IsNone(profile.sector) THEN LoadRaised(in_country, ticker)
            ELSE IF IsNone(profile.industry) THEN LoadRaised(in_sector, ticker)
            ELSE LoadPrice(in_industry, ticker, data.price)

\* call_industry(other_args): name is the -n value; resolved is the industry it
\* stands for among the possible ones (itself, or its close match), None when there
\* is none; sector_of is get_sectors(industry=...)[0]
call_industry(self, name, parsed, resolved, sector_of) ==
    IF ~parsed THEN NotParsed(self, "industry", name)
    ELSE [self EXCEPT !.industry = IF IsNone(name) \/ IsNone(resolved) THEN @ ELSE resolved[1],
                      !.sector = IF IsNone(name) \/ IsNone(resolved) THEN @ ELSE sector_of,
                      !.stocks_data = None,
                      !.last = Did("industry", name, TRUE, None, None)]

\* call_sector(other_args)
call_sector(self, name, parsed, resolved) ==
    IF ~parsed THEN NotParsed(self, "sector", name)
    ELSE [self EXCEPT !.sector = IF IsNone(name) \/ IsNone(resolved) THEN @ ELSE resolved[1], !.stocks_data = None, !.last = Did("sector", name, TRUE, None, None)]

\* call_country(other_args)
call_country(self, name, parsed, resolved) ==
    IF ~parsed THEN NotParsed(self, "country", name)
    ELSE [self EXCEPT !.country = IF IsNone(name) \/ IsNone(resolved) THEN @ ELSE resolved[1], !.stocks_data = None, !.last = Did("country", name, TRUE, None, None)]

\* call_mktcap(other_args)
call_mktcap(self, name, parsed) ==
    IF ~parsed THEN NotParsed(self, "mktcap", name)
    ELSE [self EXCEPT !.mktcap = IF IsNone(name) THEN @ ELSE Capitalize(name[1]), !.stocks_data = None, !.last = Did("mktcap", name, TRUE, None, None)]

\* call_sama(other_args): prints the list
call_sama(self, parsed) == IF parsed THEN [self EXCEPT !.last = Did("sama", None, TRUE, None, None)] ELSE NotParsed(self, "sama", None)

\* financedatabase_view.display_bars_financials(..., stocks_data): a cache handed in
\* is used as it is; without one the data is loaded for the filters handed in, and
\* may come back empty
display_bars_financials(filters, stocks_data, loaded) == IF ~IsNone(stocks_data) THEN stocks_data ELSE IF loaded THEN Some(filters) ELSE None

\* call_metric(other_args): the lookup in metric_yf_keys raises KeyError on a
\* metric that is not a key
call_metric(self, metric, parsed, loaded, tickers) ==
    IF ~parsed THEN NotParsed(self, "metric", Some(metric))
    ELSE IF metric \notin DOMAIN metric_yf_keys THEN [self EXCEPT !.last = Did("metric", Some(metric), TRUE, None, Some("KeyError"))]
    ELSE [self EXCEPT !.stocks_data = display_bars_financials(Filters(self), self.stocks_data, loaded), !.tickers = tickers, !.last = Did("metric", Some(metric), TRUE, Some([name |-> "display_bars_financials", based_on |-> metric_yf_keys[metric]]), None)]

\* parse_known_args_and_warn: no namespace on -h, nor when argparse rejects a value
\* that is not among the choices of its option
Parsed(h, value, choices) == ~h /\ (IsNone(value) \/ value[1] \in choices)

\* the rest of the module's state stays as it is
SiaFrame == UNCHANGED <<environ, ORIGINAL_TF_XLA_FLAGS, ORIGINAL_TF_FORCE_GPU_ALLOW_GROWTH, PREPROCESSER, series, other_args, ns_parser, args, ret, fc, kpi, view>>

InitSia ==
    /\ ORIGINAL_TF_XLA_FLAGS = None
    /\ ORIGINAL_TF_FORCE_GPU_ALLOW_GROWTH = None
    /\ environ = [TF_XLA_FLAGS |-> ORIGINAL_TF_XLA_FLAGS, TF_FORCE_GPU_ALLOW_GROWTH |-> ORIGINAL_TF_FORCE_GPU_ALLOW_GROWTH]
    /\ PREPROCESSER = Unset
    /\ series = Series(<<>>, <<>>)
    /\ other_args = None /\ ns_parser = None /\ args = None /\ ret = NoCall
    /\ fc = NoCall /\ kpi = NoCall /\ view = NoCall
    /\ sia = NewController

\* the quote pages a loaded ticker may have: no profile and no price, a whole
\* page, a page whose country is misspelt and whose market cap is small, a profile
\* that lacks its sector, a price that lacks its market cap
PageProfile(country, sector, industry) == Some([country |-> country, sector |-> sector, industry |-> industry])
Pages == {[summaryProfile |-> None, price |-> None],
          [summaryProfile |-> PageProfile(Some("United States"), Some("Financial Services"), Some("Financial Data & Stock Exchanges")), price |-> Some([marketCap |-> Some(LargeAbove + 1)])],
          [summaryProfile |-> PageProfile(Some("Germny"), Some("Technology"), Some("Software")), price |-> Some([marketCap |-> Some(SmallBelow - 1)])],
          [summaryProfile |-> PageProfile(Some("Germany"), None, None), price |-> None],
          [summaryProfile |-> None, price |-> Some([marketCap |-> None])]}

\* the tickers load is given: lower case, and with an exchange suffix
Tickers == {<<"a", "a", "p", "l">>, <<"B", "M", "W", ".", "D", "E">>}

Load == SiaFrame /\ \E h \in BOOLEAN, found \in BOOLEAN, ticker \in Tickers, data \in Pages : sia' = call_load(sia, ticker, ~h, found, data)
Industry == SiaFrame /\ \E h \in BOOLEAN, name \in {None, Some("Software"), Some("Sofware"), Some("xyz")} :
            sia' = call_industry(sia, name, ~h, IF name \in {Some("Software"), Some("Sofware")} THEN Some("Software") ELSE None, "Technology")
Sector == SiaFrame /\ \E h \in BOOLEAN, name \in {None, Some("Technology"), Some("Tecnology"), Some("xyz")} :
            sia' = call_sector(sia, name, ~h, IF name \in {Some("Technology"), Some("Tecnology")} THEN Some("Technology") ELSE None)
Country == SiaFrame /\ \E h \in BOOLEAN, name \in {None, Some("Germany"), Some("Germny"), Some("xyz")} :
            sia' = call_country(sia, name, ~h, IF name \in {Some("Germany"), Some("Germny")} THEN Some("Germany") ELSE None)
Mktcap == SiaFrame /\ \E h \in BOOLEAN, name \in {None, Some("xyz"), Some("small")} : sia' = call_mktcap(sia, name, Parsed(h, name, mktcap_choices))
Exchange == SiaFrame /\ \E h \in BOOLEAN : sia' = call_exchange(sia, ~h)
Clear == SiaFrame /\ \E h \in BOOLEAN, p \in {None, Some("xyz")} \cup {Some(c) : c \in clear_choices} : sia' = call_clear(sia, p, Parsed(h, p, clear_choices))
Sama == SiaFrame /\ \E h \in BOOLEAN : sia' = call_sama(sia, ~h)
\* metric on one of three names: a choice, a key that is not a choice, neither
Metric == SiaFrame /\ \E m \in {"roa", "sr", "xyz"}, how \in {"-h", "no data", "data"} : sia' = call_metric(sia, m, Parsed(how = "-h", Some(m), metric_choices), how = "data", IF how = "data" THEN <<"AAPL", "MSFT">> ELSE <<>>)
Cps == SiaFrame /\ \E h \in BOOLEAN : sia' = call_cps(sia, ~h)
Cpic == SiaFrame /\ \E h \in BOOLEAN : sia' = call_cpic(sia, ~h)
Cpis == SiaFrame /\ \E h \in BOOLEAN : sia' = call_cpis(sia, ~h)
Cpcs == SiaFrame /\ \E h \in BOOLEAN : sia' = call_cpcs(sia, ~h)
Cpci == SiaFrame /\ \E h \in BOOLEAN : sia' = call_cpci(sia, ~h)

NextSia == Load \/ Industry \/ Sector \/ Country \/ Mktcap \/ Exchange \/ Clear \/ Sama \/ Metric \/ Cps \/ Cpic \/ Cpis \/ Cpcs \/ Cpci

SpecSia == InitSia /\ [][NextSia]_vars

(* ------------- the metric command over every metric name -------------- *)
\* a new controller, or one after a clear command
InitMetric ==
    /\ ORIGINAL_TF_XLA_FLAGS = None
    /\ ORIGINAL_TF_FORCE_GPU_ALLOW_GROWTH = None
    /\ environ = [TF_XLA_FLAGS |-> ORIGINAL_TF_XLA_FLAGS, TF_FORCE_GPU_ALLOW_GROWTH |-> ORIGINAL_TF_FORCE_GPU_ALLOW_GROWTH]
    /\ PREPROCESSER = Unset
    /\ series = Series(<<>>, <<>>)
    /\ other_args = None /\ ns_parser = None /\ args = None /\ ret = NoCall
    /\ fc = NoCall /\ kpi = NoCall /\ view = NoCall
    /\ sia \in {NewController} \cup {call_clear(NewController, p, TRUE) : p \in {None} \cup {Some(c) : c \in clear_choices}}

\* metric on every name sama lists, every choice, and a name that is neither
MetricAny == SiaFrame /\ \E m \in SamaListed \cup metric_choices \cup {"xyz"}, how \in {"-h", "no data", "data"} : sia' = call_metric(sia, m, Parsed(how = "-h", Some(m), metric_choices), how = "data", IF how = "data" THEN <<"AAPL", "MSFT">> ELSE <<>>)

NextMetric == MetricAny

SpecMetric == InitMetric /\ [][NextMetric]_vars

\* C22: every metric sama lists is accepted by the metric command, and every metric
\* the metric command accepts is a key of metric_yf_keys: a metric command on a
\* listed metric (without -h) is parsed, and none that is parsed raises KeyError
C22_MetricsAgree ==
    (sia # NoCall /\ sia.last.cmd = "metric") =>
        /\ (sia.last.arg[1] \in SamaListed /\ ~sia.last.parsed) => sia.last.arg[1] \in metric_choices
        /\ sia.last.parsed => IsNone(sia.last.exc) /\ sia.last.arg[1] \in DOMAIN metric_yf_keys



\* C23: a clear command with parameter p among industry, sector, country, mktcap
\* empties that filter and leaves the other three as they were, and without a
\* parameter it empties all four; either way exclude_exchanges becomes True, ticker
\* becomes empty, stocks_data is emptied and tickers stays as it was
C23_ClearFrame ==
    [][(sia' # sia /\ sia'.last.cmd = "clear" /\ sia'.last.parsed) =>
        /\ \A f \in clear_choices : sia'[f] = IF sia'.last.arg \in {None, Some(f)} THEN "" ELSE sia[f]
        /\ sia'.exclude_exchanges = TRUE /\ sia'.ticker = <<>> /\ IsNone(sia'.stocks_data)
        /\ sia'.tickers = sia.tickers]_vars

\* clear sector has run on a controller holding German filters and returned tickers:
\* the sector is empty, country and industry are not
C23_Witness == sia # NoCall /\ sia.last = Did("clear", Some("sector"), TRUE, None, None) /\ sia.sector = "" /\ sia.country = "Germany" /\ sia.industry = "Software" /\ sia.tickers # <<>> /\ sia.ticker = <<>>

\* C27: after every command, a cache of stocks data that is not empty was loaded
\* by a metric command under the filters the controller has now, and every command
\* that changes a filter leaves the cache empty
C27_CacheIsCurrent ==
    [][/\ ~IsNone(sia'.stocks_data) => sia'.stocks_data[1] = Filters(sia')
       /\ Filters(sia') # Filters(sia) => IsNone(sia'.stocks_data)]_vars


\* the filter each statistics command is based on
StatFilter(cmd) == IF cmd \in {"cps", "cpic"} THEN "country" ELSE IF cmd \in {"cpis", "cpcs"} THEN "sector" ELSE "industry"

\* C28: a statistics command invokes its view only when its filter is set (country
\* for cps and cpic, sector for cpis and cpcs, industry for cpci), and hands it that
\* filter; with the filter empty, as after clear, no view is invoked
C28_StatsGuarded ==
    (sia # NoCall /\ sia.last.cmd \in {"cps", "cpic", "cpis", "cpcs", "cpci"}) =>
        /\ ~IsNone(sia.last.viewed) => sia[StatFilter(sia.last.cmd)] # "" /\ sia.last.viewed[1].based_on = sia[StatFilter(sia.last.cmd)]
        /\ sia[StatFilter(sia.last.cmd)] = "" => IsNone(sia.last.viewed)

\* cpcs was parsed after the sector was cleared, the country still set: no view
C28_Witness == sia # NoCall /\ sia.last = Did("cpcs", None, TRUE, None, None) /\ sia.sector = "" /\ sia.country # "" /\ sia.industry # ""


====
